---- MODULE Spec2Model ----
(***************************************************************************)
(* TrendMiner upload validation (trendminer/validators.py).                *)
(*                                                                         *)
(* One validation run of one uploaded file: the seven validators of        *)
(* validators.py, run by the pipeline of spec section 4.2, followed by the *)
(* cleanup of spec section 4.5.  File names are sequences of one-character *)
(* strings, so that str.lower, str.endswith and os.path.splitext are       *)
(* computed the way Python computes them.                                  *)
(***************************************************************************)
EXTENDS Integers, Sequences, FiniteSets, TLC

(***************************************************************************)
(* Bounds and configuration                                                *)
(***************************************************************************)

\* Largest number of members of an uploaded archive.
MaxEntries == 2

\* settings.MAX_UPLOAD_SIZE, scaled down: only the comparison with the
\* candidate's size is modelled.
MAX_UPLOAD_SIZE == 2

ZIP_MIME_TYPES == {"application/zip"}

XML_MIME_TYPES == {"application/xml"}

(***************************************************************************)
(* Strings                                                                 *)
(***************************************************************************)

UpperCase == <<"A","B","C","D","E","F","G","H","I","J","K","L","M",
               "N","O","P","Q","R","S","T","U","V","W","X","Y","Z">>

LowerCase == <<"a","b","c","d","e","f","g","h","i","j","k","l","m",
               "n","o","p","q","r","s","t","u","v","w","x","y","z">>

\* str.lower() on one character.
LowerChar(c) ==
    IF \E i \in 1..26 : UpperCase[i] = c
    THEN LowerCase[CHOOSE i \in 1..26 : UpperCase[i] = c]
    ELSE c

\* str.lower()
Lower(s) == [i \in 1..Len(s) |-> LowerChar(s[i])]

\* str.endswith(suffix)
EndsWith(s, suffix) ==
    /\ Len(suffix) <= Len(s)
    /\ SubSeq(s, Len(s) - Len(suffix) + 1, Len(s)) = suffix

\* str.rfind(c), 1-based; 0 when c does not occur.
RFind(s, c) ==
    IF \E i \in 1..Len(s) : s[i] = c
    THEN CHOOSE i \in 1..Len(s) : s[i] = c /\ \A j \in (i+1)..Len(s) : s[j] # c
    ELSE 0

\* os.path.splitext(p)[1]: from the last dot, when that dot comes after the
\* last separator and some character of the file name before it is no dot.
SplitExt(p) ==
    LET sep == RFind(p, "/")
        dot == RFind(p, ".")
    IN  IF dot > sep /\ \E i \in (sep+1)..(dot-1) : p[i] # "."
        THEN SubSeq(p, dot, Len(p))
        ELSE <<>>

\* The first path component of an archive member's name: what extraction
\* leaves at the top level of the extraction folder.
TopLevel(p) ==
    IF \E i \in 1..Len(p) : p[i] = "/"
    THEN SubSeq(p, 1, (CHOOSE i \in 1..Len(p) :
                          p[i] = "/" /\ \A j \in 1..(i-1) : p[j] # "/") - 1)
    ELSE p

S_zip == <<"z","i","p">>
S_xml == <<"x","m","l">>
S_dot_zip == <<".","z","i","p">>
S_dot_xml == <<".","x","m","l">>
S_om_xml == <<"o","m",".","x","m","l">>

(***************************************************************************)
(* Inputs                                                                  *)
(***************************************************************************)

UploadNames ==
    { <<"a",".","z","i","p">>, <<"A",".","Z","I","P">>, <<"a","z","i","p">>,
      <<"a",".","x","m","l">>, <<"A",".","X","M","L">>, <<"a","x","m","l">>,
      <<"a",".","p","n","g">> }

\* Names of archive members.  The ZIP format allows a member without a
\* file name (name length 0) and members below directories.
EntryNames ==
    { <<"a",".","x","m","l">>, S_om_xml, <<"a","x","m","l">>,
      <<"a",".","p","n","g">>, <<"s","u","b","/","a",".","x","m","l">>, <<>> }

Sizes == { MAX_UPLOAD_SIZE - 1, MAX_UPLOAD_SIZE, MAX_UPLOAD_SIZE + 1 }

Mimes == { "application/zip", "application/xml", "application/octet-stream" }

\* What a document is to the XML tools.
DocKinds == { "ok", "schema_invalid", "malformed" }

\* What an archive member is: a document, or a member whose stored data
\* fails the CRC test.
MemberKinds == DocKinds \cup { "corrupt" }

Archives ==
    UNION { [S -> MemberKinds] :
              S \in { T \in SUBSET EntryNames : Cardinality(T) <= MaxEntries } }

NoMembers == CHOOSE m \in [{} -> MemberKinds] : TRUE

\* The bytes of an upload: an XML document, a zip archive, a file that is
\* no zip archive, or a file that cannot be read.
Contents ==
    { [type |-> "xml", doc |-> k, members |-> NoMembers] : k \in DocKinds }
    \cup { [type |-> "zip", doc |-> "malformed", members |-> m] : m \in Archives }
    \cup { [type |-> t, doc |-> "malformed", members |-> NoMembers] :
             t \in { "badzip", "unreadable" } }

Candidates == [ name : UploadNames, size : Sizes, mime : Mimes, content : Contents ]

(***************************************************************************)
(* Errors and verdicts                                                     *)
(***************************************************************************)

Err(tag, a, b) == [tag |-> tag, a |-> a, b |-> b]

NoError == Err("none", "", "")

E_Extension == Err("Extension", "", "")
E_Size == Err("Size", "", "")
E_MimeType(ext, mime) == Err("MimeType", ext, mime)
E_ZipIntegrity == Err("ZipIntegrity", "", "")
E_ZipContents == Err("ZipContents", "", "")
E_XmlWellFormedness(scope) == Err("XmlWellFormedness", scope, "")
E_XmlSchemaConformity(scope) == Err("XmlSchemaConformity", scope, "")

Pending == [kind |-> "Pending", error |-> NoError]
Accepted == [kind |-> "Accepted", error |-> NoError]
Rejected(e) == [kind |-> "Rejected", error |-> e]
FatalError == [kind |-> "Fatal", error |-> NoError]

(***************************************************************************)
(* External tools and the archive library                                  *)
(***************************************************************************)

\* xmlwf: what it prints for a document; nothing when it is well-formed.
xmlwf(kind) ==
    IF kind \in { "ok", "schema_invalid" } THEN "" ELSE "not well-formed"

\* xmllint --noout --schema: its exit status; 0 when the document conforms.
xmllint(kind) == IF kind = "ok" THEN 0 ELSE 1

\* ZipFile(path): how opening the materialized upload as an archive ends.
ZipOpen(content) ==
    CASE content.type = "zip" -> "ok"
      [] content.type = "unreadable" -> "IOError"
      [] OTHER -> "BadZipFile"

\* ZipFile.namelist()
namelist(content) == DOMAIN content.members

\* ZipFile.testzip(): the name of the first member that fails the CRC test,
\* or None.  An optional name is a set with at most one element; the
\* member order of the archive is not fixed, so the first bad member is any
\* bad member.
None == {}

testzip(content) ==
    IF \E n \in namelist(content) : content.members[n] = "corrupt"
    THEN { {n} : n \in { m \in namelist(content) : content.members[m] = "corrupt" } }
    ELSE { None }

\* Python's truth value of an optional string: None and '' are false.
Truthy(opt) == \E n \in opt : Len(n) > 0

\* extract_archive(path): the extraction folder, or None when the archive
\* cannot be extracted.
Workspace == "ws"

extract_archive(content) ==
    IF /\ ZipOpen(content) = "ok"
       /\ \A n \in namelist(content) : content.members[n] # "corrupt"
    THEN { Workspace }
    ELSE None

\* os.listdir(folder): the top level of the extraction folder.
listdir(content) == { TopLevel(n) : n \in namelist(content) }

\* What a name of the top level of the extraction folder is: the document
\* of that member, or a directory.
KindAt(content, file_name) ==
    IF file_name \in namelist(content)
    THEN content.members[file_name]
    ELSE "dir"

(***************************************************************************)
(* The validators.  Each yields the sequence of ValidationErrors it raises.*)
(***************************************************************************)

validate_extension(name) ==
    IF ~(EndsWith(Lower(name), S_zip) \/ EndsWith(Lower(name), S_xml))
    THEN << E_Extension >>
    ELSE << >>

validate_size_ge(size) ==
    IF size >= MAX_UPLOAD_SIZE THEN << E_Size >> ELSE << >>

validate_size(size) ==
    IF size > MAX_UPLOAD_SIZE THEN << E_Size >> ELSE << >>

validate_mime_type(name, mime_type) ==
    LET file_extension == SplitExt(name)
    IN  IF file_extension = S_dot_zip /\ mime_type \notin ZIP_MIME_TYPES
        THEN << E_MimeType(".zip", mime_type) >>
        ELSE IF file_extension = S_dot_xml /\ mime_type \notin XML_MIME_TYPES
        THEN << E_MimeType(".xml", mime_type) >>
        ELSE << >>

\* opened: how ZipFile(path) ended; corrupted_file: what testzip returned
\* (None when the archive was not opened as a valid archive).
validate_zip_integrity(name, opened, corrupted_file) ==
    IF EndsWith(name, S_zip)
    THEN IF opened = "IOError"
         THEN << E_ZipIntegrity >>
         ELSE IF Truthy(corrupted_file)
         THEN << E_ZipIntegrity >>
         ELSE << >>
    ELSE << >>

validate_zip_contents(name, content) ==
    LET contents == IF ZipOpen(content) = "ok" THEN namelist(content) ELSE {}
    IN  IF EndsWith(name, S_zip)
        THEN IF \E item \in contents : ~EndsWith(item, S_xml)
             THEN << E_ZipContents >>
             ELSE << >>
        ELSE << >>

\* The members of the extraction folder that the loops of the last two
\* validators hand to the tool.
IsCheckedMember(file_name) ==
    EndsWith(file_name, S_dot_xml) /\ file_name # S_om_xml

\* One iteration of the loop of validate_xml_well_formedness.
wf_member(file_name, kind) ==
    IF IsCheckedMember(file_name) /\ xmlwf(kind) # ""
    THEN << E_XmlWellFormedness("archive") >>
    ELSE << >>

\* The .xml branch of validate_xml_well_formedness.
wf_single(kind) ==
    IF xmlwf(kind) # "" THEN << E_XmlWellFormedness("single") >> ELSE << >>

\* One iteration of the loop of validate_against_schema.
schema_member_inverted(file_name, kind) ==
    IF IsCheckedMember(file_name) /\ xmllint(kind) = 0
    THEN << E_XmlSchemaConformity("archive") >>
    ELSE << >>

schema_member(file_name, kind) ==
    IF IsCheckedMember(file_name) /\ ~(xmllint(kind) = 0)
    THEN << E_XmlSchemaConformity("archive") >>
    ELSE << >>

\* The .xml branch of validate_against_schema.
schema_single(kind) ==
    IF ~(xmllint(kind) = 0) THEN << E_XmlSchemaConformity("single") >> ELSE << >>

(***************************************************************************)
(* The validation run                                                      *)
(***************************************************************************)

VARIABLES
    uploaded_file,   \* the candidate: name, size, sniffed MIME type, content
    pc,              \* the stage the run is at
    trace,           \* the stages executed so far, in order
    errors,          \* the ValidationErrors raised so far, in order
    verdict,         \* the verdict of the run
    on_disk,         \* the materialized upload exists in the upload directory
    scratch,         \* the extraction folders that exist
    todo,            \* the names of os.listdir the running loop has yet to visit
    corrupted_file,  \* what testzip returned to validate_zip_integrity
    runs,            \* concurrent runs: each run's candidate, stage and verdict
    files,           \* concurrent runs: the upload directory, path -> file
    dirs,            \* concurrent runs: the extraction folders, path -> folder
    crossed          \* concurrent runs: a run touched a path the other run made

\* The state the concurrent runs share.
cvars == << runs, files, dirs, crossed >>

vars == << uploaded_file, pc, trace, errors, verdict, on_disk, scratch, todo,
           corrupted_file, cvars >>

StageOrder == << "extension", "size", "mime_type", "zip_integrity",
                 "zip_contents", "xml_wf", "schema" >>

StageIndex(stage) == CHOOSE i \in 1..Len(StageOrder) : StageOrder[i] = stage

NextStage(stage) ==
    IF StageIndex(stage) < Len(StageOrder)
    THEN StageOrder[StageIndex(stage) + 1]
    ELSE "cleanup"

\* The pipeline after a stage that raised errs: on to the next stage when
\* the stage passed, halt when it failed.
AdvanceFailAll(stage, errs) == NextStage(stage)

Advance(stage, errs) ==
    IF errs = << >> THEN NextStage(stage) ELSE "cleanup"

\* The pipeline's bookkeeping when a stage ends having raised errs.
EndStage(stage, errs) ==
    /\ errors' = errors \o errs
    /\ pc' = Advance(stage, errs)
    /\ verdict' =
         IF verdict.kind # "Pending" THEN verdict
         ELSE IF errs # << >> THEN Rejected(errs[1])
         ELSE IF Advance(stage, errs) = "cleanup" THEN Accepted
         ELSE verdict

\* @file_on_disk: the upload is written to the upload directory before the
\* validator runs.
file_on_disk == on_disk' = TRUE

Init ==
    /\ uploaded_file \in Candidates
    /\ pc = StageOrder[1]
    /\ trace = << >>
    /\ errors = << >>
    /\ verdict = Pending
    /\ on_disk = FALSE
    /\ scratch = {}
    /\ todo = {}
    /\ corrupted_file = None
    /\ runs = << >>
    /\ files = << >>
    /\ dirs = << >>
    /\ crossed = FALSE

ValidateExtension ==
    /\ pc = "extension"
    /\ trace' = Append(trace, "extension")
    /\ EndStage("extension", validate_extension(uploaded_file.name))
    /\ UNCHANGED << cvars, uploaded_file, on_disk, scratch, todo, corrupted_file >>

ValidateSize ==
    /\ pc = "size"
    /\ trace' = Append(trace, "size")
    /\ EndStage("size", validate_size(uploaded_file.size))
    /\ UNCHANGED << cvars, uploaded_file, on_disk, scratch, todo, corrupted_file >>

ValidateMimeType ==
    /\ pc = "mime_type"
    /\ trace' = Append(trace, "mime_type")
    /\ file_on_disk
    /\ EndStage("mime_type",
                validate_mime_type(uploaded_file.name, uploaded_file.mime))
    /\ UNCHANGED << cvars, uploaded_file, scratch, todo, corrupted_file >>

ValidateZipIntegrity ==
    /\ pc = "zip_integrity"
    /\ trace' = Append(trace, "zip_integrity")
    /\ file_on_disk
    /\ \E result \in ( IF /\ EndsWith(uploaded_file.name, S_zip)
                          /\ ZipOpen(uploaded_file.content) = "ok"
                       THEN testzip(uploaded_file.content)
                       ELSE { None } ) :
          /\ corrupted_file' = result
          /\ EndStage("zip_integrity",
                      validate_zip_integrity(uploaded_file.name,
                                             ZipOpen(uploaded_file.content),
                                             result))
    /\ UNCHANGED << cvars, uploaded_file, scratch, todo >>

ValidateZipContents ==
    /\ pc = "zip_contents"
    /\ trace' = Append(trace, "zip_contents")
    /\ file_on_disk
    /\ EndStage("zip_contents",
                validate_zip_contents(uploaded_file.name, uploaded_file.content))
    /\ UNCHANGED << cvars, uploaded_file, scratch, todo, corrupted_file >>

\* validate_xml_well_formedness up to its loop: the .xml branch whole, or
\* the extraction of the archive and the listing of the extraction folder.
ValidateXmlWellFormedness ==
    LET file_type == SplitExt(uploaded_file.name)
        folder_name == extract_archive(uploaded_file.content)
    IN  /\ pc = "xml_wf"
        /\ trace' = Append(trace, "xml_wf")
        /\ file_on_disk
        /\ IF file_type = S_dot_zip
           THEN /\ scratch' = scratch \cup folder_name
                /\ IF folder_name # None /\ listdir(uploaded_file.content) # {}
                   THEN /\ todo' = listdir(uploaded_file.content)
                        /\ pc' = "xml_wf_loop"
                        /\ UNCHANGED << errors, verdict >>
                   ELSE /\ EndStage("xml_wf", << >>)
                        /\ UNCHANGED todo
           ELSE IF file_type = S_dot_xml
           THEN /\ EndStage("xml_wf", wf_single(uploaded_file.content.doc))
                /\ UNCHANGED << scratch, todo >>
           ELSE /\ EndStage("xml_wf", << >>)
                /\ UNCHANGED << scratch, todo >>
        /\ UNCHANGED << cvars, uploaded_file, corrupted_file >>

\* One iteration of the loop over os.listdir, in the order the file system
\* gives: a raise leaves the loop, the last name ends the validator.
XmlWellFormednessLoop ==
    /\ pc = "xml_wf_loop"
    /\ \E file_name \in todo :
         LET errs == wf_member(file_name, KindAt(uploaded_file.content, file_name))
         IN  /\ todo' = todo \ { file_name }
             /\ IF errs # << >> \/ todo' = {}
                THEN EndStage("xml_wf", errs)
                ELSE UNCHANGED << pc, errors, verdict >>
    /\ UNCHANGED << cvars, uploaded_file, trace, on_disk, scratch, corrupted_file >>

\* validate_against_schema up to its loop.
ValidateAgainstSchema ==
    LET file_type == SplitExt(uploaded_file.name)
        folder_name == extract_archive(uploaded_file.content)
    IN  /\ pc = "schema"
        /\ trace' = Append(trace, "schema")
        /\ file_on_disk
        /\ IF file_type = S_dot_zip
           THEN /\ scratch' = scratch \cup folder_name
                /\ IF folder_name # None /\ listdir(uploaded_file.content) # {}
                   THEN /\ todo' = listdir(uploaded_file.content)
                        /\ pc' = "schema_loop"
                        /\ UNCHANGED << errors, verdict >>
                   ELSE /\ EndStage("schema", << >>)
                        /\ UNCHANGED todo
           ELSE IF file_type = S_dot_xml
           THEN /\ EndStage("schema", schema_single(uploaded_file.content.doc))
                /\ UNCHANGED << scratch, todo >>
           ELSE /\ EndStage("schema", << >>)
                /\ UNCHANGED << scratch, todo >>
        /\ UNCHANGED << cvars, uploaded_file, corrupted_file >>

\* One iteration of the loop of validate_against_schema.
AgainstSchemaLoop ==
    /\ pc = "schema_loop"
    /\ \E file_name \in todo :
         LET errs == schema_member(file_name,
                                   KindAt(uploaded_file.content, file_name))
         IN  /\ todo' = todo \ { file_name }
             /\ IF errs # << >> \/ todo' = {}
                THEN EndStage("schema", errs)
                ELSE UNCHANGED << pc, errors, verdict >>
    /\ UNCHANGED << cvars, uploaded_file, trace, on_disk, scratch, corrupted_file >>

\* subprocess.Popen cannot start the tool (the binary is missing): the
\* OSError leaves the validator and the run as a fatal error.
SpawnFails ==
    /\ \/ /\ pc \in { "xml_wf", "schema" }
          /\ SplitExt(uploaded_file.name) = S_dot_xml
          /\ trace' = Append(trace, pc)
       \/ /\ pc \in { "xml_wf_loop", "schema_loop" }
          /\ \E file_name \in todo : IsCheckedMember(file_name)
          /\ UNCHANGED trace
    /\ file_on_disk
    /\ verdict' = IF verdict.kind = "Pending" THEN FatalError ELSE verdict
    /\ pc' = "cleanup"
    /\ UNCHANGED << cvars, uploaded_file, errors, scratch, todo, corrupted_file >>

\* The end of the run: the materialized upload and the extraction folder
\* are removed, whatever the outcome.
KeepsScratch(folders) == folders

RemoveScratch(folders) == {}

Cleanup ==
    /\ pc = "cleanup"
    /\ on_disk' = FALSE
    /\ scratch' = RemoveScratch(scratch)
    /\ pc' = "done"
    /\ UNCHANGED << cvars, uploaded_file, trace, errors, verdict, todo, corrupted_file >>

Next ==
    \/ ValidateExtension
    \/ ValidateSize
    \/ ValidateMimeType
    \/ ValidateZipIntegrity
    \/ ValidateZipContents
    \/ ValidateXmlWellFormedness
    \/ XmlWellFormednessLoop
    \/ ValidateAgainstSchema
    \/ AgainstSchemaLoop
    \/ SpawnFails
    \/ Cleanup

Spec == Init /\ [][Next]_vars

(***************************************************************************)
(* Properties                                                              *)
(***************************************************************************)

Done == pc = "done"

Executed(stage) == \E i \in 1..Len(trace) : trace[i] = stage

\* The stage whose validator raises an error of the given tag.
StageOfTag(tag) ==
    CASE tag = "Extension" -> "extension"
      [] tag = "Size" -> "size"
      [] tag = "MimeType" -> "mime_type"
      [] tag = "ZipIntegrity" -> "zip_integrity"
      [] tag = "ZipContents" -> "zip_contents"
      [] tag = "XmlWellFormedness" -> "xml_wf"
      [] tag = "XmlSchemaConformity" -> "schema"

\* The candidate's name ends, case-insensitively, in the given suffix.
HasSuffixNoCase(suffix) == EndsWith(Lower(uploaded_file.name), suffix)

SizeOk == uploaded_file.size <= MAX_UPLOAD_SIZE

\* C1: the stages run in the order extension, size, MIME type, zip
\* integrity, zip contents, well-formedness, schema; the run halts at the
\* first stage that fails, so the failing stage is the last one executed,
\* exactly one ValidationError is reported by a rejected run and never more
\* than one by any run.
C1_OrderedFailFast ==
    /\ Len(trace) <= Len(StageOrder)
    /\ \A i \in 1..Len(trace) : trace[i] = StageOrder[i]
    /\ Len(errors) <= 1
    /\ verdict.kind = "Rejected" <=> Len(errors) = 1
    /\ errors # << >> =>
         /\ pc \in { "cleanup", "done" }
         /\ verdict = Rejected(errors[1])
         /\ trace[Len(trace)] = StageOfTag(errors[1].tag)

\* A run rejected by the sixth stage, in the middle of the pipeline.
C1_Witness ==
    /\ Done
    /\ Len(trace) = 6
    /\ errors = << E_XmlWellFormedness("archive") >>

\* C2: a candidate whose name does not end, case-insensitively, in ".zip" or
\* ".xml" (dot included) is Rejected(Extension).
C2_ExtensionNeedsDot ==
    ( Done /\ ~(HasSuffixNoCase(S_dot_zip) \/ HasSuffixNoCase(S_dot_xml)) )
        => verdict = Rejected(E_Extension)

\* C3: a candidate that passes the extension and size checks and whose
\* sniffed MIME type is outside the allow-set of its extension, the
\* extension taken case-insensitively, is Rejected(MimeType(ext, mime)).
C3_MimeTypeChecked ==
    ( Done /\ validate_extension(uploaded_file.name) = << >> /\ SizeOk ) =>
        /\ ( HasSuffixNoCase(S_dot_zip) /\ uploaded_file.mime \notin ZIP_MIME_TYPES )
             => verdict = Rejected(E_MimeType(".zip", uploaded_file.mime))
        /\ ( HasSuffixNoCase(S_dot_xml) /\ uploaded_file.mime \notin XML_MIME_TYPES )
             => verdict = Rejected(E_MimeType(".xml", uploaded_file.mime))

\* C4: when every earlier stage passes, a standalone .xml candidate whose
\* checker output is non-empty is Rejected(XmlWellFormedness(single)), and a
\* .zip candidate with a malformed .xml entry other than om.xml, at any path
\* inside the archive, is Rejected(XmlWellFormedness(archive)).
C4_MalformedRejected ==
    ( Done /\ Executed("xml_wf") /\ verdict.kind # "Fatal" ) =>
        /\ ( EndsWith(uploaded_file.name, S_dot_xml)
             /\ xmlwf(uploaded_file.content.doc) # "" )
             => verdict = Rejected(E_XmlWellFormedness("single"))
        /\ ( EndsWith(uploaded_file.name, S_dot_zip)
             /\ \E n \in namelist(uploaded_file.content) :
                   /\ EndsWith(n, S_dot_xml)
                   /\ n # S_om_xml
                   /\ xmlwf(uploaded_file.content.members[n]) # "" )
             => verdict = Rejected(E_XmlWellFormedness("archive"))

\* C5: when every earlier stage passes, a standalone .xml candidate for which
\* the schema validator exits non-zero is Rejected(XmlSchemaConformity(single)),
\* and a .zip candidate with an extracted .xml entry other than om.xml for
\* which the validator exits non-zero is Rejected(XmlSchemaConformity(archive)).
C5_SchemaInvalidRejected ==
    ( Done /\ Executed("schema") /\ verdict.kind # "Fatal" ) =>
        /\ ( EndsWith(uploaded_file.name, S_dot_xml)
             /\ xmllint(uploaded_file.content.doc) # 0 )
             => verdict = Rejected(E_XmlSchemaConformity("single"))
        /\ ( EndsWith(uploaded_file.name, S_dot_zip)
             /\ extract_archive(uploaded_file.content) # None
             /\ \E n \in namelist(uploaded_file.content) :
                   /\ EndsWith(n, S_dot_xml)
                   /\ n # S_om_xml
                   /\ xmlwf(uploaded_file.content.members[n]) = ""
                   /\ xmllint(uploaded_file.content.members[n]) # 0 )
             => verdict = Rejected(E_XmlSchemaConformity("archive"))

\* C6: a .zip candidate that passes the extension, size, MIME-type and
\* integrity stages and whose entry list holds a name that does not end in
\* ".xml" (dot included) is Rejected(ZipContents).
C6_NonXmlEntryRejected ==
    ( /\ Done
      /\ EndsWith(uploaded_file.name, S_dot_zip)
      /\ Executed("zip_contents")
      /\ ZipOpen(uploaded_file.content) = "ok"
      /\ \E n \in namelist(uploaded_file.content) : ~EndsWith(n, S_dot_xml) )
        => verdict = Rejected(E_ZipContents)

\* C7: a .zip candidate that passes the extension, size and MIME-type stages
\* is Rejected(ZipIntegrity) whenever opening the archive fails with an I/O
\* error or the integrity test names a corrupted member; an archive that is
\* structurally invalid is not rejected by this stage.
C7_CorruptArchiveRejected ==
    ( /\ Done
      /\ EndsWith(uploaded_file.name, S_dot_zip)
      /\ Executed("zip_integrity") ) =>
        /\ ( ZipOpen(uploaded_file.content) = "IOError" \/ corrupted_file # None )
             => verdict = Rejected(E_ZipIntegrity)
        /\ ZipOpen(uploaded_file.content) = "BadZipFile"
             => verdict # Rejected(E_ZipIntegrity)

\* C8: a candidate that passes the extension check is Rejected(Size) exactly
\* when its size is strictly greater than MAX_UPLOAD_SIZE, whatever its
\* content, MIME type or archive structure.
C8_SizeBoundary ==
    ( Done /\ validate_extension(uploaded_file.name) = << >> ) =>
        ( verdict = Rejected(E_Size) <=> uploaded_file.size > MAX_UPLOAD_SIZE )

\* A candidate of MAX_UPLOAD_SIZE + 1 bytes rejected by the size stage.
C8_Witness ==
    /\ Done
    /\ validate_extension(uploaded_file.name) = << >>
    /\ uploaded_file.size = MAX_UPLOAD_SIZE + 1
    /\ trace = << "extension", "size" >>
    /\ verdict = Rejected(E_Size)

\* The well-formed, schema-conforming document of the tests, and the archive
\* that holds only that document.
GoodXml == [type |-> "xml", doc |-> "ok", members |-> NoMembers]

GoodZip ==
    [type |-> "zip", doc |-> "malformed",
     members |-> [n \in { <<"a",".","x","m","l">> } |-> "ok"]]

\* C9: a candidate for which every stage passes is Accepted; a well-formed,
\* schema-conforming standalone .xml file and the .zip archive holding only
\* that file are Accepted, and no validator raises for them.
C9_AllPassAccepted ==
    ( Done /\ verdict.kind # "Fatal" ) =>
        /\ ( trace = StageOrder /\ errors = << >> ) => verdict = Accepted
        /\ ( /\ uploaded_file.name = <<"a",".","x","m","l">>
             /\ uploaded_file.content = GoodXml
             /\ uploaded_file.mime \in XML_MIME_TYPES
             /\ SizeOk )
             => ( verdict = Accepted /\ errors = << >> /\ trace = StageOrder )
        /\ ( /\ uploaded_file.name = <<"a",".","z","i","p">>
             /\ uploaded_file.content = GoodZip
             /\ uploaded_file.mime \in ZIP_MIME_TYPES
             /\ SizeOk )
             => ( verdict = Accepted /\ errors = << >> /\ trace = StageOrder )

\* The archive of the tests, accepted after both loops have run.
C9_Witness ==
    /\ Done
    /\ uploaded_file.name = <<"a",".","z","i","p">>
    /\ uploaded_file.content = GoodZip
    /\ trace = StageOrder
    /\ verdict = Accepted

Runs == { 1, 2 }

\* get_tmp_path(uploaded_file.name): the path below the upload directory,
\* one per name.
get_tmp_path(name) == name

ConcurrentNames ==
    { <<"a",".","x","m","l">>, <<"b",".","x","m","l">>, <<"a",".","z","i","p">> }

ConcurrentContents ==
    { [type |-> "xml", doc |-> k, members |-> NoMembers] : k \in DocKinds }
    \cup { [type |-> "zip", doc |-> "malformed",
            members |-> [n \in { <<"a",".","x","m","l">> } |-> k]] : k \in DocKinds }

ConcurrentCandidates ==
    [ name : ConcurrentNames, size : { MAX_UPLOAD_SIZE },
      mime : ZIP_MIME_TYPES \cup XML_MIME_TYPES, content : ConcurrentContents ]

Paths == { get_tmp_path(n) : n \in ConcurrentNames }

\* A path of the upload directory: the file there, and the run that wrote it.
NoFile ==
    [present |-> FALSE, owner |-> 0, mime |-> "",
     content |-> [type |-> "unreadable", doc |-> "malformed", members |-> NoMembers]]

WrittenBy(r, cand) ==
    [present |-> TRUE, owner |-> r, mime |-> cand.mime, content |-> cand.content]

NoDir == [present |-> FALSE, owner |-> 0]

\* @file_on_disk with the upload directory shared: the upload is written
\* when nothing is at its path; when another run's file is there, it is
\* either left in place or overwritten.
materialize(file, r, cand) ==
    IF ~file.present THEN { WrittenBy(r, cand) }
    ELSE IF file.owner = r THEN { file }
    ELSE { file, WrittenBy(r, cand) }

\* The validators decorated with @file_on_disk: all but the first two.
Decorated(stage) == StageIndex(stage) >= StageIndex("mime_type")

\* The validator of a stage, whole, on the file found at the upload's path:
\* the ValidationErrors it raises.
StageErrors(stage, cand, file) ==
    LET file_type == SplitExt(cand.name)
        extracted == extract_archive(file.content) # None
        names == listdir(file.content)
    IN  CASE stage = "extension" -> validate_extension(cand.name)
          [] stage = "size" -> validate_size(cand.size)
          [] stage = "mime_type" -> validate_mime_type(cand.name, file.mime)
          [] stage = "zip_integrity" ->
               validate_zip_integrity(cand.name, ZipOpen(file.content),
                                      CHOOSE r \in testzip(file.content) : TRUE)
          [] stage = "zip_contents" -> validate_zip_contents(cand.name, file.content)
          [] stage = "xml_wf" ->
               IF file_type = S_dot_zip
               THEN IF extracted /\ \E f \in names :
                          wf_member(f, KindAt(file.content, f)) # << >>
                    THEN << E_XmlWellFormedness("archive") >>
                    ELSE << >>
               ELSE IF file_type = S_dot_xml THEN wf_single(file.content.doc)
               ELSE << >>
          [] stage = "schema" ->
               IF file_type = S_dot_zip
               THEN IF extracted /\ \E f \in names :
                          schema_member(f, KindAt(file.content, f)) # << >>
                    THEN << E_XmlSchemaConformity("archive") >>
                    ELSE << >>
               ELSE IF file_type = S_dot_xml THEN schema_single(file.content.doc)
               ELSE << >>

\* The verdict of a candidate validated with the upload directory to itself.
RECURSIVE AloneFrom(_, _)
AloneFrom(cand, i) ==
    IF i > Len(StageOrder) THEN Accepted
    ELSE LET errs == StageErrors(StageOrder[i], cand, WrittenBy(0, cand))
         IN  IF errs # << >> THEN Rejected(errs[1]) ELSE AloneFrom(cand, i + 1)

VerdictAlone(cand) == AloneFrom(cand, 1)

\* The variables of the single run.
svars == << uploaded_file, pc, trace, errors, verdict, on_disk, scratch, todo,
            corrupted_file >>

InitConcurrent ==
    /\ runs \in [ Runs -> { [cand |-> c, pc |-> StageOrder[1], verdict |-> Pending,
                             ws |-> {}] : c \in ConcurrentCandidates } ]
    /\ files = [ p \in Paths |-> NoFile ]
    /\ dirs = [ p \in Paths |-> NoDir ]
    /\ crossed = FALSE
    /\ uploaded_file = runs[1].cand
    /\ pc = "done"
    /\ trace = << >>
    /\ errors = << >>
    /\ verdict = Pending
    /\ on_disk = FALSE
    /\ scratch = {}
    /\ todo = {}
    /\ corrupted_file = None

\* One validator of run r.
ConcurrentStage(r) ==
    LET run == runs[r]
        stage == run.pc
        cand == run.cand
        path == get_tmp_path(cand.name)
    IN  /\ \E i \in 1..Len(StageOrder) : StageOrder[i] = stage
        /\ \E file \in ( IF Decorated(stage)
                         THEN materialize(files[path], r, cand)
                         ELSE { files[path] } ) :
             LET errs == StageErrors(stage, cand, file)
                 extracts == /\ stage \in { "xml_wf", "schema" }
                             /\ SplitExt(cand.name) = S_dot_zip
                             /\ extract_archive(file.content) # None
                 touched ==
                     \/ Decorated(stage) /\ files[path].present
                                         /\ files[path].owner # r
                     \/ extracts /\ dirs[path].present /\ dirs[path].owner # r
             IN  /\ files' = [files EXCEPT ![path] = file]
                 /\ dirs' = IF extracts /\ ~dirs[path].present
                            THEN [dirs EXCEPT ![path] = [present |-> TRUE, owner |-> r]]
                            ELSE dirs
                 /\ runs' = [runs EXCEPT ![r] =
                       [ cand |-> cand,
                         pc |-> Advance(stage, errs),
                         verdict |->
                             IF run.verdict.kind # "Pending" THEN run.verdict
                             ELSE IF errs # << >> THEN Rejected(errs[1])
                             ELSE IF Advance(stage, errs) = "cleanup" THEN Accepted
                             ELSE run.verdict,
                         ws |-> IF extracts THEN run.ws \cup { path } ELSE run.ws ]]
                 /\ crossed' = (crossed \/ touched)
        /\ UNCHANGED svars

\* The end of run r: the file at the upload's path and the extraction
\* folder of that path are removed.
ConcurrentCleanup(r) ==
    LET path == get_tmp_path(runs[r].cand.name)
    IN  /\ runs[r].pc = "cleanup"
        /\ files' = [files EXCEPT ![path] = NoFile]
        /\ dirs' = [dirs EXCEPT ![path] = NoDir]
        /\ runs' = [runs EXCEPT ![r].pc = "done"]
        /\ crossed' = ( \/ crossed
                        \/ files[path].present /\ files[path].owner # r
                        \/ dirs[path].present /\ dirs[path].owner # r )
        /\ UNCHANGED svars

NextConcurrent ==
    \/ \E r \in Runs : ConcurrentStage(r)
    \/ \E r \in Runs : ConcurrentCleanup(r)

SpecConcurrent == InitConcurrent /\ [][NextConcurrent]_vars

\* C11: of two concurrent runs, neither reads, writes or removes the
\* materialized upload or the extraction folder of the other, each run ends
\* with the verdict it would produce alone, and a run uses at most one
\* extraction folder.
C11_RunsIsolated ==
    /\ ~crossed
    /\ \A r \in Runs :
         runs[r].pc = "done" => runs[r].verdict = VerdictAlone(runs[r].cand)
    /\ \A r \in Runs : Cardinality(runs[r].ws) <= 1

====
